---- MODULE Spec2Model ----
(***************************************************************************)
(* Model of the Waiter trait of src/src/lib.rs: the five wait entry points *)
(* (wait, wait_for, wait_for_with_delay, wait_forever,                     *)
(* wait_forever_with_delay) driving one waitable action through poll,      *)
(* sleep and the monotonic clock, and the WaiterCurrentState accessor.     *)
(*                                                                         *)
(* Time is an integer number of clock units.  now is the monotonic clock;  *)
(* it never decreases and advances only inside the steps that take time:   *)
(* between two statements (at most MaxJitter before a clock reading), in a *)
(* poll (at most MaxPollTime) and in a sleep (the requested delay plus at  *)
(* most MaxSlack).                                                         *)
(***************************************************************************)
EXTENDS Integers, Sequences, FiniteSets, TLC

\* ------------------------------------------------------------------ bounds
MaxK == 2          \* pending polls an action returns before its terminal one
MaxPolls == 4      \* cap on the probe counter (guards PollCall)
MaxDuration == 2   \* largest timeout, in clock units
MaxDelay == 2      \* largest delay between polls
MaxPollTime == 1   \* longest a single poll takes
MaxSlack == 1      \* longest a sleep overshoots the requested delay
MaxJitter == 1     \* longest time between two statements before a clock read
MaxReads == 1      \* cap on the caller's waiter_current_state reads

None == -1                       \* Option<Duration>::None
Durations == 0..MaxDuration
Delays == 0..MaxDelay
Values == {11, 12}               \* T: values a poll can produce
Errors == {"NotFound", "Failed"} \* E: errors a poll can return
NoValue == 0
NoError == "none"

\* An action (an implementation of Waiter<T, E>): its poll returns pending
\* `pendings` times and then its terminal outcome; "never" stays pending.
Actions ==
    [pendings : 0..MaxK, terminal : {"value"}, value : Values, error : {NoError}]
    \cup [pendings : 0..MaxK, terminal : {"error"}, value : {NoValue}, error : Errors]
    \cup [pendings : {0}, terminal : {"never"}, value : {NoValue}, error : {NoError}]

EntryPoints ==
    {"wait", "wait_for", "wait_for_with_delay", "wait_forever", "wait_forever_with_delay"}

VARIABLES
    pc,            \* the statement the driver executes next
    entry,         \* the top-level entry point the caller invoked
    owner,         \* who owns the action: "caller", "driver" (moved in), "dropped"
    act,           \* the action's behaviour (its poll script)
    dflt,          \* what default_wait_timeout() and default_delay() return
    calls,         \* the action's state: how many times poll was invoked
    duration,      \* the `duration` argument / local in use
    delay,         \* the `delay` argument / local in use
    start,         \* `start` of wait_for_with_delay
    now,           \* the monotonic clock
    t0,            \* clock value when the entry point was invoked
    args,          \* the arguments the caller passed to the entry point
    firstElapsed,  \* what the first loop-condition evaluation observed
    lastElapsed,   \* what the latest loop-condition evaluation observed
    lastPoll,      \* the outcome of the latest completed poll
    pendingCnt,    \* polls that returned Ok(None)
    sleeps,        \* completed sleep(delay) calls
    terminalSeen,  \* a poll has returned Ok(Some(_)) or Err(_)
    polledAfterTerminal, \* poll was invoked after a terminal outcome
    timeoutCalls,  \* calls of timeout_error()
    nTimeoutReads, \* calls of default_wait_timeout()
    nDelayReads,   \* calls of default_delay()
    result,        \* the Result<T, E> the entry point returned
    reads,         \* caller's calls of waiter_current_state()
    observed,      \* what the latest waiter_current_state() call returned
    pollEnd        \* clock value when the latest poll completed

vars == <<pc, entry, owner, act, dflt, args, calls, duration, delay, start, now,
          t0, firstElapsed, lastElapsed, lastPoll, pendingCnt, sleeps, terminalSeen,
          polledAfterTerminal,
          timeoutCalls, nTimeoutReads, nDelayReads, result, reads, observed, pollEnd>>

NoResult == [kind |-> "none", val |-> NoValue, err |-> NoError]
Ok(v) == [kind |-> "ok", val |-> v, err |-> NoError]
Err(e) == [kind |-> "err", val |-> NoValue, err |-> e]

\* ---------------------------------------------------------- Waiter capability
default_wait_timeout == dflt.timeout

default_delay == dflt.delay

\* fn timeout_error(&self) -> E: a value of E of its own
timeout_error == "TimedOut"

\* async fn poll(&mut self): the outcomes the n-th call can have.  The contract
\* says nothing about a call made after the terminal outcome: any outcome.
poll(n) ==
    IF act.terminal = "never" \/ n <= act.pendings
        THEN {[kind |-> "pending", val |-> NoValue, err |-> NoError]}
    ELSE IF n = act.pendings + 1
        THEN {[kind |-> act.terminal, val |-> act.value, err |-> act.error]}
    ELSE {[kind |-> "pending", val |-> NoValue, err |-> NoError]}
         \cup {[kind |-> "value", val |-> v, err |-> NoError] : v \in Values}
         \cup {[kind |-> "error", val |-> NoValue, err |-> e] : e \in Errors}

NoPoll == [kind |-> "none", val |-> NoValue, err |-> NoError]

Init ==
    /\ pc = "idle"
    /\ entry = "none"
    /\ owner = "caller"
    /\ act \in Actions
    /\ dflt \in [timeout : {None} \cup Durations, delay : Delays]
    /\ calls = 0
    /\ duration = None
    /\ delay = None
    /\ start = None
    /\ now = 0
    /\ t0 = None
    /\ args = [duration |-> None, delay |-> None]
    /\ firstElapsed = None
    /\ lastElapsed = None
    /\ lastPoll = NoPoll
    /\ pendingCnt = 0
    /\ sleeps = 0
    /\ terminalSeen = FALSE
    /\ polledAfterTerminal = FALSE
    /\ timeoutCalls = 0
    /\ nTimeoutReads = 0
    /\ nDelayReads = 0
    /\ result = NoResult
    /\ reads = 0
    /\ observed = None
    /\ pollEnd = None

\* ------------------------------------------------------------- the caller
\* The caller invokes one entry point; `self` is taken by value, so the action
\* moves into the call.
Call ==
    /\ pc = "idle"
    /\ owner = "caller"
    /\ \E e \in EntryPoints :
        /\ entry' = e
        /\ pc' = e
        /\ \E d \in Durations, dl \in Delays :
            /\ args' = [duration |->
                            IF e \in {"wait_for", "wait_for_with_delay"} THEN d ELSE None,
                        delay |->
                            IF e \in {"wait_for_with_delay", "wait_forever_with_delay"}
                                THEN dl ELSE None]
    /\ duration' = args'.duration
    /\ delay' = args'.delay
    /\ owner' = "driver"
    /\ t0' = now
    /\ UNCHANGED <<pollEnd, act, dflt, calls, start, now, firstElapsed, lastElapsed,
                   lastPoll, pendingCnt, sleeps, terminalSeen, polledAfterTerminal,
                   timeoutCalls, nTimeoutReads,
                   nDelayReads, result, reads, observed>>

\* Variant: the accessor advances the action like a poll does.
waiter_current_state_Polls ==
    /\ owner = "caller"
    /\ reads < MaxReads
    /\ reads' = reads + 1
    /\ calls' = calls + 1
    /\ observed' = calls'
    /\ UNCHANGED <<pollEnd, pc, entry, owner, act, dflt, args, duration, delay, start, now,
                   t0, firstElapsed, lastElapsed, lastPoll, pendingCnt, sleeps,
                   terminalSeen, polledAfterTerminal, timeoutCalls, nTimeoutReads,
                   nDelayReads, result>>

\* fn waiter_current_state(&self) -> &T: a shared borrow of an action the caller
\* still owns; returns the state as of the last poll.
waiter_current_state ==
    /\ owner = "caller"
    /\ reads < MaxReads
    /\ reads' = reads + 1
    /\ observed' = calls
    /\ UNCHANGED <<pollEnd, pc, entry, owner, act, dflt, args, calls, duration, delay, start, now,
                   t0, firstElapsed, lastElapsed, lastPoll, pendingCnt, sleeps, terminalSeen,
                   polledAfterTerminal, timeoutCalls, nTimeoutReads, nDelayReads,
                   result>>

\* ------------------------------------------------------------ wait driver
\* Variant: wait() ignores the default timeout and always waits forever.
wait_IgnoresTimeout ==
    /\ pc = "wait"
    /\ nTimeoutReads' = nTimeoutReads + 1
    /\ duration' = duration
    /\ pc' = "wait_forever"
    /\ UNCHANGED <<pollEnd, entry, owner, act, dflt, args, calls, delay, start, now, t0,
                   firstElapsed, lastElapsed, lastPoll, pendingCnt, sleeps,
                   terminalSeen, polledAfterTerminal, timeoutCalls, nDelayReads,
                   result, reads, observed>>

\* async fn wait(self)
wait ==
    /\ pc = "wait"
    /\ nTimeoutReads' = nTimeoutReads + 1
    /\ IF default_wait_timeout # None
          THEN /\ duration' = default_wait_timeout
               /\ pc' = "wait_for"
          ELSE /\ duration' = duration
               /\ pc' = "wait_forever"
    /\ UNCHANGED <<pollEnd, entry, owner, act, dflt, args, calls, delay, start, now, t0,
                   firstElapsed, lastElapsed, lastPoll, pendingCnt, sleeps, terminalSeen,
                   polledAfterTerminal, timeoutCalls, nDelayReads, result, reads,
                   observed>>

\* async fn wait_for(self, duration)
wait_for ==
    /\ pc = "wait_for"
    /\ nDelayReads' = nDelayReads + 1
    /\ delay' = default_delay
    /\ pc' = "wait_for_with_delay"
    /\ UNCHANGED <<pollEnd, entry, owner, act, dflt, args, calls, duration, start, now, t0,
                   firstElapsed, lastElapsed, lastPoll, pendingCnt, sleeps, terminalSeen,
                   polledAfterTerminal, timeoutCalls, nTimeoutReads, result, reads,
                   observed>>

\* async fn wait_forever(self)
wait_forever ==
    /\ pc = "wait_forever"
    /\ nDelayReads' = nDelayReads + 1
    /\ delay' = default_delay
    /\ pc' = "wait_forever_with_delay"
    /\ UNCHANGED <<pollEnd, entry, owner, act, dflt, args, calls, duration, start, now, t0,
                   firstElapsed, lastElapsed, lastPoll, pendingCnt, sleeps, terminalSeen,
                   polledAfterTerminal, timeoutCalls, nTimeoutReads, result, reads,
                   observed>>

\* Variant: a do-while loop, the first poll is made before any elapsed-time check.
wait_for_with_delay_PollFirst ==
    /\ pc = "wait_for_with_delay"
    /\ start' = now
    /\ pc' = "b_poll"
    /\ UNCHANGED <<pollEnd, entry, owner, act, dflt, args, calls, duration, delay, now, t0,
                   firstElapsed, lastElapsed, lastPoll, pendingCnt, sleeps,
                   terminalSeen, polledAfterTerminal, timeoutCalls, nTimeoutReads,
                   nDelayReads, result, reads, observed>>

\* wait_for_with_delay: let start = Instant::now();
wait_for_with_delay ==
    /\ pc = "wait_for_with_delay"
    /\ start' = now
    /\ pc' = "b_check"
    /\ UNCHANGED <<pollEnd, entry, owner, act, dflt, args, calls, duration, delay, now, t0,
                   firstElapsed, lastElapsed, lastPoll, pendingCnt, sleeps, terminalSeen,
                   polledAfterTerminal, timeoutCalls, nTimeoutReads, nDelayReads,
                   result, reads, observed>>

\* Variant: an exclusive deadline.
WithinDeadline_Strict(elapsed, d) == elapsed < d

\* the loop condition: Instant::now().duration_since(start) <= duration
WithinDeadline(elapsed, d) == elapsed <= d

\* Variant: the deadline is per poll, start is taken anew at every check.
BoundedCheck_ResetsStart ==
    /\ pc = "b_check"
    /\ \E j \in 0..MaxJitter :
        /\ now' = now + j
        /\ lastElapsed' = now' - start
    /\ start' = now'
    /\ firstElapsed' = IF firstElapsed = None THEN lastElapsed' ELSE firstElapsed
    /\ pc' = IF WithinDeadline(lastElapsed', duration) THEN "b_poll" ELSE "b_timeout"
    /\ UNCHANGED <<pollEnd, entry, owner, act, dflt, args, calls, duration, delay, t0,
                   lastPoll, pendingCnt, sleeps, terminalSeen, polledAfterTerminal,
                   timeoutCalls, nTimeoutReads, nDelayReads, result, reads,
                   observed>>

\* while Instant::now().duration_since(start) <= duration { ... }
BoundedCheck ==
    /\ pc = "b_check"
    /\ \E j \in 0..MaxJitter :
        /\ now' = now + j
        /\ lastElapsed' = now' - start
    /\ firstElapsed' = IF firstElapsed = None THEN lastElapsed' ELSE firstElapsed
    /\ pc' = IF WithinDeadline(lastElapsed', duration) THEN "b_poll" ELSE "b_timeout"
    /\ UNCHANGED <<pollEnd, entry, owner, act, dflt, args, calls, duration, delay, start, t0,
                   lastPoll, pendingCnt, sleeps, terminalSeen, polledAfterTerminal,
                   timeoutCalls, nTimeoutReads, nDelayReads, result, reads,
                   observed>>

\* self.poll() is invoked (the future is created and first polled)
PollInvoke(at, next) ==
    /\ pc = at
    /\ calls < MaxPolls
    /\ calls' = calls + 1
    /\ polledAfterTerminal' = (polledAfterTerminal \/ terminalSeen)
    /\ pc' = next
    /\ UNCHANGED <<pollEnd, entry, owner, act, dflt, args, duration, delay, start, now, t0,
                   firstElapsed, lastElapsed, lastPoll, pendingCnt, sleeps, terminalSeen,
                   timeoutCalls,
                   nTimeoutReads, nDelayReads, result, reads, observed>>

\* Variants of the loop body, each with one plausible slip.
\* The `return` of the produced value is left out: the loop sleeps and polls on.
PollOutcome_NoReturn(o, sleepPc) ==
    /\ terminalSeen' = (terminalSeen \/ o.kind # "pending")
    /\ pendingCnt' = IF o.kind = "pending" THEN pendingCnt + 1 ELSE pendingCnt
    /\ CASE o.kind = "error" ->
              /\ result' = Err(o.err)
              /\ pc' = "done"
              /\ owner' = "dropped"
         [] OTHER ->
              /\ result' = result
              /\ pc' = sleepPc
              /\ owner' = owner

\* The `?` is left out: an error is treated like "not finished yet".
PollOutcome_ErrRetried(o, sleepPc) ==
    /\ terminalSeen' = (terminalSeen \/ o.kind # "pending")
    /\ pendingCnt' = IF o.kind = "pending" THEN pendingCnt + 1 ELSE pendingCnt
    /\ CASE o.kind = "value" ->
              /\ result' = Ok(o.val)
              /\ pc' = "done"
              /\ owner' = "dropped"
         [] OTHER ->
              /\ result' = result
              /\ pc' = sleepPc
              /\ owner' = owner

\* Every failure is reported as the timeout error.
PollOutcome_ErrAsTimeout(o, sleepPc) ==
    /\ terminalSeen' = (terminalSeen \/ o.kind # "pending")
    /\ pendingCnt' = IF o.kind = "pending" THEN pendingCnt + 1 ELSE pendingCnt
    /\ CASE o.kind = "error" ->
              /\ result' = Err(timeout_error)
              /\ pc' = "done"
              /\ owner' = "dropped"
         [] o.kind = "value" ->
              /\ result' = Ok(o.val)
              /\ pc' = "done"
              /\ owner' = "dropped"
         [] OTHER ->
              /\ result' = result
              /\ pc' = sleepPc
              /\ owner' = owner

\* The first produced value is checked for and then poll is awaited again for
\* the value to return.
PollOutcome_Repoll(o, sleepPc) ==
    /\ terminalSeen' = (terminalSeen \/ o.kind # "pending")
    /\ pendingCnt' = IF o.kind = "pending" THEN pendingCnt + 1 ELSE pendingCnt
    /\ CASE o.kind = "error" ->
              /\ result' = Err(o.err)
              /\ pc' = "done"
              /\ owner' = "dropped"
         [] o.kind = "value" /\ terminalSeen ->
              /\ result' = Ok(o.val)
              /\ pc' = "done"
              /\ owner' = "dropped"
         [] o.kind = "value" /\ ~terminalSeen ->
              /\ result' = result
              /\ pc' = IF sleepPc = "b_sleep" THEN "b_poll" ELSE "f_poll"
              /\ owner' = owner
         [] OTHER ->
              /\ result' = result
              /\ pc' = sleepPc
              /\ owner' = owner

\* What the loop body does with the outcome o of self.poll().await:
\*   `?` returns Err(e); Some(result) returns Ok(result); None goes on to sleep.
PollOutcome(o, sleepPc) ==
    /\ terminalSeen' = (terminalSeen \/ o.kind # "pending")
    /\ pendingCnt' = IF o.kind = "pending" THEN pendingCnt + 1 ELSE pendingCnt
    /\ CASE o.kind = "error" ->
              /\ result' = Err(o.err)
              /\ pc' = "done"
              /\ owner' = "dropped"
         [] o.kind = "value" ->
              /\ result' = Ok(o.val)
              /\ pc' = "done"
              /\ owner' = "dropped"
         [] OTHER ->
              /\ result' = result
              /\ pc' = sleepPc
              /\ owner' = owner

\* self.poll().await completes, after some time
PollComplete(at, sleepPc) ==
    /\ pc = at
    /\ \E dt \in 0..MaxPollTime : now' = now + dt
    /\ pollEnd' = now'
    /\ \E o \in poll(calls) :
        /\ lastPoll' = o
        /\ PollOutcome(o, sleepPc)
    /\ UNCHANGED <<entry, act, dflt, args, calls, duration, delay, start, t0,
                   firstElapsed, lastElapsed, sleeps, polledAfterTerminal, timeoutCalls,
                   nTimeoutReads, nDelayReads, reads, observed>>

\* Variant: the delay is not honoured, the loop only yields.
Sleep_NoDelay(at, next) ==
    /\ pc = at
    /\ \E s \in 0..MaxSlack : now' = now + s
    /\ sleeps' = sleeps + 1
    /\ pc' = next
    /\ UNCHANGED <<pollEnd, entry, owner, act, dflt, args, calls, duration, delay, start, t0,
                   firstElapsed, lastElapsed, lastPoll, pendingCnt, terminalSeen,
                   polledAfterTerminal, timeoutCalls, nTimeoutReads, nDelayReads,
                   result, reads, observed>>

\* Variant: the delay is asked of the action again before every sleep.
Sleep_RereadsDelay(at, next) ==
    /\ pc = at
    /\ nDelayReads' = nDelayReads + 1
    /\ delay' = default_delay
    /\ \E s \in 0..MaxSlack : now' = now + delay' + s
    /\ sleeps' = sleeps + 1
    /\ pc' = next
    /\ UNCHANGED <<pollEnd, entry, owner, act, dflt, args, calls, duration, start, t0,
                   firstElapsed, lastElapsed, lastPoll, pendingCnt, terminalSeen,
                   polledAfterTerminal, timeoutCalls, nTimeoutReads, result, reads,
                   observed>>

\* sleep(delay).await: suspends for at least `delay`
Sleep(at, next) ==
    /\ pc = at
    /\ \E s \in 0..MaxSlack : now' = now + delay + s
    /\ sleeps' = sleeps + 1
    /\ pc' = next
    /\ UNCHANGED <<pollEnd, entry, owner, act, dflt, args, calls, duration, delay, start, t0,
                   firstElapsed, lastElapsed, lastPoll, pendingCnt, terminalSeen,
                   polledAfterTerminal,
                   timeoutCalls, nTimeoutReads, nDelayReads, result, reads,
                   observed>>

\* wait_for_with_delay, loop body
BoundedPollCall == PollInvoke("b_poll", "b_polling")

\* Variant: a hard deadline, the outcome of a poll that ran past the deadline is
\* dropped for the timeout error.
BoundedPollReturn_HardDeadline ==
    /\ pc = "b_polling"
    /\ \E dt \in 0..MaxPollTime : now' = now + dt
    /\ pollEnd' = now'
    /\ \E o \in poll(calls) :
        /\ lastPoll' = o
        /\ IF now' - start > duration
              THEN /\ terminalSeen' = (terminalSeen \/ o.kind # "pending")
                   /\ pendingCnt' = IF o.kind = "pending" THEN pendingCnt + 1
                                                           ELSE pendingCnt
                   /\ result' = Err(timeout_error)
                   /\ pc' = "done"
                   /\ owner' = "dropped"
              ELSE PollOutcome(o, "b_sleep")
    /\ UNCHANGED <<entry, act, dflt, args, calls, duration, delay, start, t0,
                   firstElapsed, lastElapsed, sleeps, polledAfterTerminal,
                   timeoutCalls, nTimeoutReads, nDelayReads, reads, observed>>

BoundedPollReturn == PollComplete("b_polling", "b_sleep")

\* Variant: the sleep is cut to what remains of the timeout.
BoundedSleep_Clamped ==
    /\ pc = "b_sleep"
    /\ LET remaining == IF duration - (now - start) > 0
                           THEN duration - (now - start) ELSE 0
           nap == IF delay < remaining THEN delay ELSE remaining
       IN \E s \in 0..MaxSlack : now' = now + nap + s
    /\ sleeps' = sleeps + 1
    /\ pc' = "b_check"
    /\ UNCHANGED <<pollEnd, entry, owner, act, dflt, args, calls, duration, delay,
                   start, t0, firstElapsed, lastElapsed, lastPoll, pendingCnt,
                   terminalSeen, polledAfterTerminal, timeoutCalls, nTimeoutReads,
                   nDelayReads, result, reads, observed>>

\* Variant: the deadline is looked at once, before the first poll only.
BoundedSleep_NoRecheck == Sleep("b_sleep", "b_poll")

BoundedSleep == Sleep("b_sleep", "b_check")

\* wait_for_with_delay: Err(self.timeout_error())
BoundedTimeout ==
    /\ pc = "b_timeout"
    /\ timeoutCalls' = timeoutCalls + 1
    /\ result' = Err(timeout_error)
    /\ pc' = "done"
    /\ owner' = "dropped"
    /\ UNCHANGED <<pollEnd, entry, act, dflt, args, calls, duration, delay, start, now, t0,
                   firstElapsed, lastElapsed, lastPoll, pendingCnt, sleeps, terminalSeen,
                   polledAfterTerminal, nTimeoutReads, nDelayReads, reads,
                   observed>>

\* Variant: the unbounded wait is run as a bounded wait with the largest timeout.
wait_forever_with_delay_Bounded ==
    /\ pc = "wait_forever_with_delay"
    /\ duration' = MaxDuration
    /\ start' = now
    /\ pc' = "b_check"
    /\ UNCHANGED <<pollEnd, entry, owner, act, dflt, args, calls, delay, now, t0,
                   firstElapsed, lastElapsed, lastPoll, pendingCnt, sleeps,
                   terminalSeen, polledAfterTerminal, timeoutCalls, nTimeoutReads,
                   nDelayReads, result, reads, observed>>

\* wait_forever_with_delay: loop { ... }
wait_forever_with_delay ==
    /\ pc = "wait_forever_with_delay"
    /\ pc' = "f_poll"
    /\ UNCHANGED <<pollEnd, entry, owner, act, dflt, args, calls, duration, delay, start, now, t0,
                   firstElapsed, lastElapsed, lastPoll, pendingCnt, sleeps, terminalSeen,
                   polledAfterTerminal, timeoutCalls, nTimeoutReads, nDelayReads,
                   result, reads, observed>>

ForeverPollCall == PollInvoke("f_poll", "f_polling")

\* Variant: a busy loop, a pending poll is followed by the next poll at once.
ForeverPollReturn_NoSleep == PollComplete("f_polling", "f_poll")

ForeverPollReturn == PollComplete("f_polling", "f_sleep")

\* Variant: the unbounded loop gives up with the timeout error after one delay.
ForeverSleep_GivesUp == Sleep("f_sleep", "b_timeout")

ForeverSleep == Sleep("f_sleep", "f_poll")

Driver ==
    \/ wait
    \/ wait_for
    \/ wait_forever
    \/ wait_for_with_delay
    \/ BoundedCheck
    \/ BoundedPollCall
    \/ BoundedPollReturn
    \/ BoundedSleep
    \/ BoundedTimeout
    \/ wait_forever_with_delay
    \/ ForeverPollCall
    \/ ForeverPollReturn
    \/ ForeverSleep

Next ==
    \/ Call
    \/ waiter_current_state
    \/ Driver

Spec == Init /\ [][Next]_vars

\* Every poll and every delay completes and the driver keeps running.
LiveSpec == Spec /\ WF_vars(Driver)

\* ------------------------------------------------------------------ claims
\* the bounded loop has been entered (start was taken)
Bounded == start # None
Pending == [kind |-> "pending", val |-> NoValue, err |-> NoError]

\* C1: once a poll has returned a terminal outcome (a value or an error) the
\* invocation has returned and poll is never invoked again: the terminal poll
\* is the last poll, whichever entry point was used.
C1_TerminalPollIsLast ==
    /\ ~polledAfterTerminal
    /\ terminalSeen =>
          /\ pc = "done"
          /\ lastPoll.kind \in {"value", "error"}
          /\ calls = pendingCnt + 1

C1_Witness ==
    /\ pc = "done"
    /\ terminalSeen
    /\ entry = "wait"
    /\ pendingCnt = 2
    /\ calls = 3

\* C2: an error returned by poll is the result of the wait, bounded or
\* unbounded, as it is: timeout_error is not called, nothing is polled and no
\* delay is taken after it, also when the deadline has passed meanwhile.
C2_ErrorPropagated ==
    lastPoll.kind = "error" =>
        /\ pc = "done"
        /\ result = Err(lastPoll.err)
        /\ result.err \in Errors
        /\ result.err = act.error
        /\ timeoutCalls = 0
        /\ calls = act.pendings + 1
        /\ sleeps = pendingCnt
        /\ sleeps = calls - 1

C2_Witness ==
    /\ pc = "done"
    /\ Bounded
    /\ act.pendings = 1
    /\ result = Err("NotFound")
    /\ calls = 2
    /\ now - start > duration

\* C3 as stated: for an always-pending action, the bounded wait with duration = 0
\* (or a duration already elapsed at the first check) returns the timeout
\* error with zero polls.
C3_Original ==
    (/\ pc = "done"
     /\ Bounded
     /\ act.terminal = "never"
     /\ (duration = 0 \/ firstElapsed > duration))
        => (result = Err(timeout_error) /\ calls = 0)

\* C3 amended: for an always-pending action, the bounded wait whose first
\* elapsed-time check observes elapsed > duration returns the timeout error with
\* zero polls; a first check that observes elapsed <= duration (with duration = 0:
\* a clock that has not advanced since start was taken) is what lets poll run.
C3_ExpiredAtFirstCheck ==
    (Bounded /\ act.terminal = "never") =>
        /\ (firstElapsed # None /\ firstElapsed > duration) =>
              /\ calls = 0
              /\ pc \in {"b_timeout", "done"}
              /\ pc = "done" => (result = Err(timeout_error) /\ timeoutCalls = 1)
        /\ calls > 0 => (firstElapsed # None /\ firstElapsed <= duration)
        /\ (pc = "done" /\ firstElapsed <= duration) => calls > 0

C3_Witness ==
    /\ pc = "done"
    /\ Bounded
    /\ act.terminal = "never"
    /\ duration = 0
    /\ firstElapsed = 1
    /\ calls = 0
    /\ result = Err(timeout_error)

\* C4: the bounded wait returns timeout_error() exactly when the loop ended at
\* an elapsed-time check that observed elapsed > duration, and then every poll
\* of the invocation returned pending; a pending last poll is never reported
\* as a domain failure nor a failed last poll as a timeout.
C4_TimeoutIffDeadline ==
    (pc = "done" /\ Bounded) =>
        /\ (result = Err(timeout_error)) <=>
              (timeoutCalls = 1 /\ lastElapsed > duration /\ ~terminalSeen)
        /\ result = Err(timeout_error) =>
              (calls = pendingCnt /\ lastPoll \in {NoPoll, Pending})
        /\ lastPoll \in {NoPoll, Pending} => result = Err(timeout_error)
        /\ lastPoll.kind = "error" => result = Err(lastPoll.err)
        /\ timeoutCalls = 0 => terminalSeen

C4_Witness ==
    /\ pc = "done"
    /\ Bounded
    /\ result = Err(timeout_error)
    /\ calls = 2
    /\ pendingCnt = 2
    /\ act.terminal = "error"

\* C5: for an action that is pending k times and then produces v, a bounded
\* wait in which k+1 elapsed-time checks pass returns exactly Ok(v) after
\* exactly k+1 polls.
C5_ValueAfterKPending ==
    (Bounded /\ act.terminal = "value") =>
        /\ lastPoll.kind = "value" =>
              /\ pc = "done"
              /\ result = Ok(act.value)
              /\ calls = act.pendings + 1
              /\ pendingCnt = act.pendings
        /\ calls <= act.pendings + 1
        /\ (calls = act.pendings + 1 /\ pc # "b_polling") =>
              (pc = "done" /\ result = Ok(act.value))
        /\ (pc = "done" /\ calls <= act.pendings) => result = Err(timeout_error)

C5_Witness ==
    /\ pc = "done"
    /\ entry = "wait"
    /\ act.pendings = 2
    /\ delay = 1
    /\ duration = MaxDuration
    /\ result = Ok(act.value)
    /\ calls = 3

InBoundedLoop == pc \in {"b_check", "b_poll", "b_polling", "b_sleep", "b_timeout"}
InForeverLoop == pc \in {"f_poll", "f_polling", "f_sleep"}
RanBounded == InBoundedLoop \/ (pc = "done" /\ start # None)
RanForever == InForeverLoop \/ (pc = "done" /\ start = None)

\* C6: for an action that is pending N times and then produces v, the
\* unbounded wait, every poll and delay completing, eventually returns Ok(v)
\* after exactly N+1 polls, and the unbounded wait never returns the timeout
\* error.
C6_ForeverReturnsValue ==
    /\ [](RanForever => (timeoutCalls = 0 /\ result # Err(timeout_error)))
    /\ []((RanForever /\ act.terminal = "value") =>
            /\ calls <= act.pendings + 1
            /\ pc = "done" => (result = Ok(act.value) /\ calls = act.pendings + 1))
    /\ (pc \in {"wait_forever", "wait_forever_with_delay"} /\ act.terminal = "value")
          ~> (pc = "done" /\ result = Ok(act.value) /\ calls = act.pendings + 1)

C6_Witness ==
    /\ pc = "done"
    /\ entry = "wait_forever"
    /\ act.pendings = MaxK
    /\ result = Ok(act.value)
    /\ calls = MaxK + 1
    /\ now > MaxDuration

\* C7: each entry point runs the loop its row of the table names with the
\* timeout and delay of that row: wait() the bounded loop with
\* (default_wait_timeout, default_delay) or, without a default timeout, the
\* unbounded loop with default_delay; wait_for(d) the bounded loop with
\* (d, default_delay); wait_forever() the unbounded loop with default_delay; the
\* _with_delay forms with the arguments as given.
C7_EntryPointsResolve ==
    (InBoundedLoop \/ InForeverLoop \/ pc = "done") =>
        CASE entry = "wait" ->
               IF dflt.timeout # None
                  THEN RanBounded /\ duration = dflt.timeout /\ delay = dflt.delay
                  ELSE RanForever /\ delay = dflt.delay
          [] entry = "wait_for" ->
               RanBounded /\ duration = args.duration /\ delay = dflt.delay
          [] entry = "wait_for_with_delay" ->
               RanBounded /\ duration = args.duration /\ delay = args.delay
          [] entry = "wait_forever" ->
               RanForever /\ delay = dflt.delay
          [] entry = "wait_forever_with_delay" ->
               RanForever /\ delay = args.delay
          [] OTHER -> FALSE

C7_Witness ==
    /\ pc = "done"
    /\ entry = "wait"
    /\ dflt.timeout = 2
    /\ dflt.delay = 1
    /\ duration = 2
    /\ delay = 1
    /\ result = Err(timeout_error)
    /\ calls > 0

\* C8: when the invocation returns, by value, error or timeout, at least
\* k times the delay in use has elapsed since it was invoked, k being the
\* number of polls that returned pending.
C8_DelayHonoured ==
    pc = "done" => now - t0 >= pendingCnt * delay

C8_Witness ==
    /\ pc = "done"
    /\ pendingCnt = 2
    /\ delay = 2
    /\ now - t0 = 4
    /\ result.kind = "ok"

\* C9 as stated: the caller can read waiter_current_state while a wait on the
\* action is in progress as well as between invocations.
C9_Original ==
    reads < MaxReads => ENABLED waiter_current_state

\* C9 amended: waiter_current_state reads the action through a shared borrow
\* and changes neither its state, the polls made nor the outcome of a wait;
\* the caller can make the read only while it still owns the action, that is
\* before the action is moved into a wait: not while a wait is in progress
\* and not after it.
C9_ReadOnlyWhileOwned ==
    [][reads' # reads =>
          /\ owner = "caller"
          /\ pc = "idle"
          /\ observed' = calls
          /\ UNCHANGED <<pc, entry, owner, act, dflt, args, calls, duration, delay,
                         start, now, t0, firstElapsed, lastElapsed, lastPoll,
                         pendingCnt, sleeps, terminalSeen, polledAfterTerminal,
                         timeoutCalls, nTimeoutReads, nDelayReads, result,
                         pollEnd>>]_vars

C9_Witness ==
    /\ reads = 1
    /\ observed = 0
    /\ pc = "done"
    /\ calls = 3
    /\ result.kind = "ok"

\* C10: in the bounded wait every poll follows an elapsed-time check that
\* observed now - start <= duration, the check passes exactly when it
\* observes that, so at elapsed = duration a poll is still made, and only a
\* check that observes elapsed > duration leaves the loop, without polling.
C10_InclusiveCheck ==
    [][/\ pc = "b_check" =>
            /\ lastElapsed' = now' - start
            /\ (pc' = "b_poll") <=> (lastElapsed' <= duration)
            /\ (pc' = "b_timeout") <=> (lastElapsed' > duration)
            /\ calls' = calls
       /\ (calls' # calls /\ RanBounded) =>
            /\ pc = "b_poll"
            /\ lastElapsed = now - start
            /\ lastElapsed <= duration
       /\ pc' = "b_timeout" => (pc = "b_check" /\ calls' = calls)]_vars

C10_Witness ==
    /\ pc = "b_polling"
    /\ duration = 2
    /\ lastElapsed = duration
    /\ calls = 2

\* polls invoked and not yet completed
InFlight == calls - pendingCnt - (IF terminalSeen THEN 1 ELSE 0)

\* C11: the polls of one invocation never overlap; each poll that returns
\* pending is followed by exactly one sleep of the delay in use before the
\* next check or poll, so consecutive polls are one delay apart, and no sleep
\* follows a poll that returned a value or an error.
C11_SequentialSpaced ==
    [][/\ InFlight \in {0, 1}
       /\ (InFlight = 1) <=> (pc \in {"b_polling", "f_polling"})
       /\ calls' # calls =>
            /\ calls' = calls + 1
            /\ InFlight = 0
            /\ sleeps = calls
            /\ sleeps = pendingCnt
       /\ sleeps' # sleeps =>
            /\ sleeps' = sleeps + 1
            /\ lastPoll = Pending
            /\ pendingCnt = sleeps + 1
            /\ now' - now >= delay
            /\ now' - now <= delay + MaxSlack
            /\ delay' = delay
            /\ calls' = calls
       /\ pc' = "done" => sleeps' = pendingCnt']_vars

C11_Witness ==
    /\ pc = "done"
    /\ entry = "wait_forever"
    /\ lastPoll.kind = "error"
    /\ calls = 3
    /\ sleeps = 2
    /\ delay = 1
    /\ now - t0 = 2

\* C12: the timeout is soft.  A poll started after a check that observed
\* elapsed <= duration is not cut short when the deadline passes while it runs:
\* its value is returned as Ok(value), its error as Err(error), never the
\* timeout error, and after a pending outcome the deadline is looked at again
\* only by the check that follows the delay.
C12_SoftTimeout ==
    [][(pc = "b_polling" /\ pc' # pc) =>
          /\ lastElapsed <= duration
          /\ timeoutCalls' = 0
          /\ CASE lastPoll'.kind = "value" ->
                    pc' = "done" /\ result' = Ok(lastPoll'.val)
               [] lastPoll'.kind = "error" ->
                    pc' = "done" /\ result' = Err(lastPoll'.err)
               [] OTHER -> pc' = "b_sleep" /\ result' = NoResult]_vars

C12_Witness ==
    /\ pc = "done"
    /\ Bounded
    /\ result.kind = "ok"
    /\ lastElapsed = duration
    /\ now - start > duration
    /\ calls = 2

\* C13: the bounded wait terminates: every poll and delay completing, once the
\* monotonic clock is past start + duration the wait returns; and a bounded
\* wait that returns without a poll having produced a terminal outcome
\* returns Err(timeout_error()).
C13_BoundedTerminates ==
    /\ (InBoundedLoop /\ now - start > duration) ~> (pc = "done")
    /\ []((pc = "done" /\ Bounded /\ ~terminalSeen) =>
             (result = Err(timeout_error) /\ timeoutCalls = 1))

C13_Witness ==
    /\ pc = "done"
    /\ entry = "wait"
    /\ act.terminal = "never"
    /\ dflt.timeout = 1
    /\ result = Err(timeout_error)
    /\ calls = 2

\* the caller asked for an unbounded wait
ForeverEntry ==
    \/ entry \in {"wait_forever", "wait_forever_with_delay"}
    \/ (entry = "wait" /\ dflt.timeout = None /\ pc # "wait")

\* C14: the unbounded wait has no elapsed-time guard: it takes no start time,
\* evaluates no deadline and never calls timeout_error; it returns only
\* straight after a poll that returned a value or an error, with that
\* outcome; and on an action that stays pending it never returns, however far
\* the clock has advanced.
C14_ForeverHasNoGuard ==
    ForeverEntry =>
        /\ start = None
        /\ firstElapsed = None
        /\ lastElapsed = None
        /\ timeoutCalls = 0
        /\ pc \notin {"b_check", "b_poll", "b_polling", "b_sleep", "b_timeout"}
        /\ pc = "done" =>
              /\ lastPoll.kind \in {"value", "error"}
              /\ lastPoll.kind = "value" => result = Ok(lastPoll.val)
              /\ lastPoll.kind = "error" => result = Err(lastPoll.err)
        /\ act.terminal = "never" => (pc # "done" /\ result = NoResult)

C14_Witness ==
    /\ entry = "wait_forever_with_delay"
    /\ act.terminal = "never"
    /\ pc = "f_poll"
    /\ calls = MaxPolls
    /\ delay = 2
    /\ now - t0 > MaxDuration + MaxPollTime + MaxDelay + MaxSlack + MaxJitter

\* C15: the defaults are read once per top-level call and before the first
\* poll: wait() calls default_wait_timeout() once and default_delay() once,
\* wait_for and wait_forever call default_delay() once and
\* default_wait_timeout() never, the _with_delay forms call neither; inside
\* the loops no accessor is called and the duration and delay in use never
\* change, so a later change of what the accessors return cannot reach them.
C15_DefaultsReadOnce ==
    [][/\ (InBoundedLoop \/ InForeverLoop \/ pc = "done") =>
            CASE entry = "wait" -> nTimeoutReads = 1 /\ nDelayReads = 1
              [] entry \in {"wait_for", "wait_forever"} ->
                    nTimeoutReads = 0 /\ nDelayReads = 1
              [] OTHER -> nTimeoutReads = 0 /\ nDelayReads = 0
       /\ (InBoundedLoop \/ InForeverLoop) =>
            /\ nTimeoutReads' = nTimeoutReads
            /\ nDelayReads' = nDelayReads
            /\ duration' = duration
            /\ delay' = delay
       /\ (nTimeoutReads' # nTimeoutReads \/ nDelayReads' # nDelayReads) =>
            /\ calls = 0
            /\ calls' = 0
            /\ pc \in {"wait", "wait_for", "wait_forever"}
       /\ nTimeoutReads' # nTimeoutReads =>
            (nTimeoutReads' = 1 /\ (dflt.timeout # None => duration' = dflt.timeout))
       /\ nDelayReads' # nDelayReads =>
            (nDelayReads' = 1 /\ delay' = dflt.delay)]_vars

C15_Witness ==
    /\ pc = "done"
    /\ entry = "wait"
    /\ nTimeoutReads = 1
    /\ nDelayReads = 1
    /\ calls = 3
    /\ sleeps = 2

\* C16: in the bounded wait with a delay > 0, whatever the polls return and
\* however long they take, poll is invoked at most floor(duration / delay) + 1
\* times.
C16_PollBound ==
    (Bounded /\ delay > 0) => calls <= (duration \div delay) + 1

C16_Witness ==
    /\ pc = "done"
    /\ Bounded
    /\ duration = 2
    /\ delay = 1
    /\ calls = 3
    /\ result = Err(timeout_error)

====
